---------------------------- MODULE Spec2Model ----------------------------
(***************************************************************************)
(* Abjad evaluation (src/src/lib.rs): the per-character classifier         *)
(* get_letter_value and the three scans built on it, abjad (best effort),  *)
(* abjad_collect_errors (collecting) and abjad_strict (strict).            *)
(*                                                                         *)
(* A character is its Unicode scalar value.  A string is a sequence of     *)
(* characters.  The three scans run over the same input and the same       *)
(* preferences, one character per step each, so that their locals can be   *)
(* compared after every character.                                         *)
(***************************************************************************)
EXTENDS Integers, Sequences, FiniteSets, TLC

VARIABLES
    input,                  \* self: the &str the three methods are called on
    prefs,                  \* the AbjadPrefs argument
    i,                      \* how many characters input.chars() has yielded
    pc,                     \* "loop" while the for loops run, then "done"
    abjad,                  \* locals and return value of AbjadExt::abjad
    abjad_collect_errors,   \* ... of AbjadExt::abjad_collect_errors
    abjad_strict            \* ... of AbjadExt::abjad_strict

vars == <<input, prefs, i, pc, abjad, abjad_collect_errors, abjad_strict>>

-----------------------------------------------------------------------------
(* Bounds and input alphabets *)

\* Longest input of the specification Spec.
MaxLen == 3

\* The characters Spec draws its inputs from: alif with maddah, lone hamzah,
\* beh, seen, ghain, the shaddah, space, zero-width non-joiner, and two
\* characters outside the table, Latin 't' (U+0074) and fathah (U+064E).
Chars == {1570, 1569, 1576, 1587, 1594, 1617, 32, 8204, 116, 1614}

\* Every character a match arm of get_letter_value names.
ArmChars ==
    {1575, 1571, 1573, 1649, 1570, 1569, 1576, 1662, 1580, 1670, 1583,
     1607, 1577, 1728, 1608, 1572, 1586, 1688, 1581, 1591, 1610, 1609,
     1574, 1740, 1603, 1705, 1711, 1604, 1605, 1606, 1587, 1593, 1601,
     1589, 1602, 1585, 1588, 1578, 1579, 1582, 1584, 1590, 1592, 1594,
     1617, 32, 8204}

\* The characters SpecTable classifies: every arm's characters, and
\* characters no arm names: 't', fathah, heh goal (U+06C1), heh doachashmee
\* (U+06BE).
TableChars == ArmChars \cup {116, 1614, 1729, 1726}

\* The 28 base letters in Mashriqi order (abjad hawwaz hutti kalaman sa'fas
\* qarashat thakhadh dazagh) and in Maghribi order (... sa'fad qurisat
\* thakhudh zaghush).
MashriqiAlphabet ==
    <<1575, 1576, 1580, 1583, 1607, 1608, 1586, 1581, 1591, 1610, 1603, 1604,
      1605, 1606, 1587, 1593, 1601, 1589, 1602, 1585, 1588, 1578, 1579, 1582,
      1584, 1590, 1592, 1594>>

MaghribiAlphabet ==
    <<1575, 1576, 1580, 1583, 1607, 1608, 1586, 1581, 1591, 1610, 1603, 1604,
      1605, 1606, 1589, 1593, 1601, 1590, 1602, 1585, 1587, 1578, 1579, 1582,
      1584, 1592, 1594, 1588>>

\* The input of the test `all`: the Mashriqi alphabet in its eight words.
AllTestInput ==
    <<1575, 1576, 1580, 1583, 32, 1607, 1608, 1586, 32, 1581, 1591, 1610, 32,
      1603, 1604, 1605, 1606, 32, 1587, 1593, 1601, 1589, 32, 1602, 1585,
      1588, 1578, 32, 1579, 1582, 1584, 32, 1590, 1592, 1594>>

Reverse(s) == [k \in 1..Len(s) |-> s[Len(s) + 1 - k]]

Rotate(s, r) == [k \in 1..Len(s) |-> s[((k - 1 + r) % Len(s)) + 1]]

\* s with the separator sep after each letter that leaves a multiple of
\* `every` letters to come (every = 1: between all letters; every = 4: in
\* groups of four), or nowhere (every = 0).
RECURSIVE Separated(_, _, _)
Separated(s, every, sep) ==
    IF s = <<>> THEN <<>>
    ELSE IF every > 0 /\ Len(s) % every = 0 /\ Len(s) > 1
         THEN <<sep, Head(s)>> \o Separated(Tail(s), every, sep)
         ELSE <<Head(s)>> \o Separated(Tail(s), every, sep)

AlphabetInputs ==
    {AllTestInput} \cup
    { Separated(Rotate(a, r), every, sep) :
        a \in {MashriqiAlphabet, MaghribiAlphabet,
               Reverse(MashriqiAlphabet), Reverse(MaghribiAlphabet)},
        r \in 0..27, every \in {0, 1, 4}, sep \in {32, 8204} }

RECURSIVE SeqsUpTo(_, _)
SeqsUpTo(S, n) ==
    IF n = 0 THEN {<<>>}
    ELSE LET shorter == SeqsUpTo(S, n - 1)
         IN  shorter \cup {Append(s, c) : s \in {t \in shorter : Len(t) = n - 1}, c \in S}

AllPrefs ==
    [count_shaddah : BOOLEAN, double_alif_maddah : BOOLEAN,
     ignore_lone_hamzah : BOOLEAN, maghribi_order : BOOLEAN]

-----------------------------------------------------------------------------
(* Values *)

Ok(v) == [tag |-> "Ok", value |-> v]

Err(msg) == [tag |-> "Err", msg |-> msg]

Pending == [tag |-> "Pending"]

\* u32 `+=`.  It wraps at 2^32 in a release build and panics there in a debug
\* build.  The sums of this model stay below 2^31, where TLC's own integers
\* end, so the sum is the exact one.
U32Add(a, b) == a + b

HexDigits ==
    <<"0", "1", "2", "3", "4", "5", "6", "7", "8", "9", "a", "b", "c", "d", "e", "f">>

RECURSIVE to_hex(_)
to_hex(n) ==
    IF n < 16 THEN HexDigits[n + 1]
    ELSE to_hex(n \div 16) \o HexDigits[(n % 16) + 1]

\* char::escape_unicode collected into a String: \u{ the scalar value in
\* lower-case hex without leading zeros }.
escape_unicode(character) == "\\u{" \o to_hex(character) \o "}"

-----------------------------------------------------------------------------
(* get_letter_value *)

\* The match of get_letter_value: the letter_value its arm leaves (the
\* `let mut letter_value: u32 = 0` where the arm assigns nothing), or the
\* early return of the `_` arm.
match_character(character, last_value, count_shaddah, double_alif_maddah, ignore_lone_hamzah, maghribi_order) ==
    LET value(v) == [returned |-> FALSE, letter_value |-> v]
    IN
    CASE character \in {1575, 1571, 1573, 1649} -> value(1)
      [] character = 1570 -> IF double_alif_maddah THEN value(2) ELSE value(1)
      [] character = 1569 -> IF ~ignore_lone_hamzah THEN value(1) ELSE value(0)
      [] character \in {1576, 1662} -> value(2)
      [] character \in {1580, 1670} -> value(3)
      [] character = 1583 -> value(4)
      [] character \in {1607, 1577, 1728} -> value(5)
      [] character \in {1608, 1572} -> value(6)
      [] character \in {1586, 1688} -> value(7)
      [] character = 1581 -> value(8)
      [] character = 1591 -> value(9)
      [] character \in {1610, 1609, 1574, 1740} -> value(10)
      [] character \in {1603, 1705, 1711} -> value(20)
      [] character = 1604 -> value(30)
      [] character = 1605 -> value(40)
      [] character = 1606 -> value(50)
      [] character = 1587 -> IF maghribi_order THEN value(300) ELSE value(60)
      [] character = 1593 -> value(70)
      [] character = 1601 -> value(80)
      [] character = 1589 -> IF maghribi_order THEN value(60) ELSE value(90)
      [] character = 1602 -> value(100)
      [] character = 1585 -> value(200)
      [] character = 1588 -> IF maghribi_order THEN value(1000) ELSE value(300)
      [] character = 1578 -> value(400)
      [] character = 1579 -> value(500)
      [] character = 1582 -> value(600)
      [] character = 1584 -> value(700)
      [] character = 1590 -> IF maghribi_order THEN value(90) ELSE value(800)
      [] character = 1592 -> IF maghribi_order THEN value(800) ELSE value(900)
      [] character = 1594 -> IF maghribi_order THEN value(900) ELSE value(1000)
      [] character = 1617 -> IF count_shaddah THEN value(last_value) ELSE value(0)
      [] character \in {32, 8204} -> value(0)
      [] OTHER ->
            [returned |-> TRUE,
             result |-> Err("Unrecognized character: " \o escape_unicode(character))]

\* A mutant: the shaddah arm never reads count_shaddah.
get_letter_value_shaddah_ignored(character, last_value, count_shaddah, double_alif_maddah, ignore_lone_hamzah, maghribi_order) ==
    LET m == match_character(character, last_value, FALSE, double_alif_maddah,
                             ignore_lone_hamzah, maghribi_order)
    IN  IF m.returned THEN m.result ELSE Ok(m.letter_value)

\* A mutant: the shaddah counts the letter before it twice over.
get_letter_value_shaddah_twice(character, last_value, count_shaddah, double_alif_maddah, ignore_lone_hamzah, maghribi_order) ==
    LET m == match_character(character, 2 * last_value, count_shaddah,
                             double_alif_maddah, ignore_lone_hamzah,
                             maghribi_order)
    IN  IF m.returned THEN m.result ELSE Ok(m.letter_value)

\* A mutant: dad keeps its Mashriqi value under Maghribi order.
get_letter_value_dad_unmoved(character, last_value, count_shaddah, double_alif_maddah, ignore_lone_hamzah, maghribi_order) ==
    LET m == match_character(character, last_value, count_shaddah,
                             double_alif_maddah, ignore_lone_hamzah,
                             maghribi_order /\ character # 1590)
    IN  IF m.returned THEN m.result ELSE Ok(m.letter_value)

\* A mutant: gaf falls into the arm of lam.
get_letter_value_gaf_as_lam(character, last_value, count_shaddah, double_alif_maddah, ignore_lone_hamzah, maghribi_order) ==
    LET m == match_character(IF character = 1711 THEN 1604 ELSE character,
                             last_value, count_shaddah, double_alif_maddah,
                             ignore_lone_hamzah, maghribi_order)
    IN  IF m.returned THEN m.result ELSE Ok(m.letter_value)

get_letter_value(character, last_value, count_shaddah, double_alif_maddah, ignore_lone_hamzah, maghribi_order) ==
    LET m == match_character(character, last_value, count_shaddah,
                             double_alif_maddah, ignore_lone_hamzah,
                             maghribi_order)
    IN  IF m.returned THEN m.result ELSE Ok(m.letter_value)

-----------------------------------------------------------------------------
(* The bodies of the three for loops.  f is the method's frame, p its prefs. *)

\* A mutant: the else branch forgets `last_value = 0`.
abjad_body_no_reset(f, character, p) ==
    LET r == get_letter_value(character, f.last_value, p.count_shaddah,
                              p.double_alif_maddah, p.ignore_lone_hamzah,
                              p.maghribi_order)
    IN  IF r.tag = "Ok"
        THEN [f EXCEPT !.abjad_total = U32Add(@, r.value), !.last_value = r.value]
        ELSE f

abjad_body(f, character, p) ==
    LET r == get_letter_value(character, f.last_value, p.count_shaddah,
                              p.double_alif_maddah, p.ignore_lone_hamzah,
                              p.maghribi_order)
    IN  IF r.tag = "Ok"
        THEN [f EXCEPT !.abjad_total = U32Add(@, r.value), !.last_value = r.value]
        ELSE [f EXCEPT !.last_value = 0]

\* A mutant: the else branch pushes the error and forgets `last_value = 0`.
abjad_collect_errors_body_no_reset(f, character, p) ==
    LET r == get_letter_value(character, f.last_value, p.count_shaddah,
                              p.double_alif_maddah, p.ignore_lone_hamzah,
                              p.maghribi_order)
    IN  IF r.tag = "Ok"
        THEN [f EXCEPT !.abjad_total = U32Add(@, r.value), !.last_value = r.value]
        ELSE [f EXCEPT !.errors = Append(@, escape_unicode(character))]

\* A mutant: the error goes to the front of the log.
abjad_collect_errors_body_prepend(f, character, p) ==
    LET r == get_letter_value(character, f.last_value, p.count_shaddah,
                              p.double_alif_maddah, p.ignore_lone_hamzah,
                              p.maghribi_order)
    IN  IF r.tag = "Ok"
        THEN [f EXCEPT !.abjad_total = U32Add(@, r.value), !.last_value = r.value]
        ELSE [f EXCEPT !.errors = <<escape_unicode(character)>> \o @,
                       !.last_value = 0]

abjad_collect_errors_body(f, character, p) ==
    LET r == get_letter_value(character, f.last_value, p.count_shaddah,
                              p.double_alif_maddah, p.ignore_lone_hamzah,
                              p.maghribi_order)
    IN  IF r.tag = "Ok"
        THEN [f EXCEPT !.abjad_total = U32Add(@, r.value), !.last_value = r.value]
        ELSE [f EXCEPT !.errors = Append(@, escape_unicode(character)),
                       !.last_value = 0]

\* A mutant: `last_value = new_value` is missing.
abjad_strict_body_no_last(f, character, p) ==
    IF f.ret.tag # "Pending" THEN f
    ELSE
    LET r == get_letter_value(character, f.last_value, p.count_shaddah,
                              p.double_alif_maddah, p.ignore_lone_hamzah,
                              p.maghribi_order)
    IN  IF r.tag = "Err"
        THEN [f EXCEPT !.ret = r, !.classified = @ + 1]
        ELSE [f EXCEPT !.abjad_total = U32Add(@, r.value),
                       !.classified = @ + 1]

\* A mutant: the error is kept for the end of the loop instead of returned,
\* so a later error replaces it.
abjad_strict_body_no_return(f, character, p) ==
    LET r == get_letter_value(character, f.last_value, p.count_shaddah,
                              p.double_alif_maddah, p.ignore_lone_hamzah,
                              p.maghribi_order)
    IN  IF r.tag = "Err"
        THEN [f EXCEPT !.ret = r, !.classified = @ + 1]
        ELSE [f EXCEPT !.abjad_total = U32Add(@, r.value),
                       !.last_value = r.value, !.classified = @ + 1]

\* `?` returns the Err from the method: once ret is set the loop is over and
\* nothing more is classified.  classified counts the calls of
\* get_letter_value.
abjad_strict_body(f, character, p) ==
    IF f.ret.tag # "Pending" THEN f
    ELSE
    LET r == get_letter_value(character, f.last_value, p.count_shaddah,
                              p.double_alif_maddah, p.ignore_lone_hamzah,
                              p.maghribi_order)
    IN  IF r.tag = "Err"
        THEN [f EXCEPT !.ret = r, !.classified = @ + 1]
        ELSE [f EXCEPT !.abjad_total = U32Add(@, r.value),
                       !.last_value = r.value, !.classified = @ + 1]

-----------------------------------------------------------------------------
(* Specifications *)

\* The frames as the methods' `let mut` lines leave them.
Frames ==
    /\ i = 0
    /\ pc = "loop"
    /\ abjad = [abjad_total |-> 0, last_value |-> 0, ret |-> Pending]
    /\ abjad_collect_errors =
           [abjad_total |-> 0, errors |-> <<>>, last_value |-> 0, ret |-> Pending]
    /\ abjad_strict =
           [abjad_total |-> 0, last_value |-> 0, classified |-> 0, ret |-> Pending]

Init ==
    /\ input \in SeqsUpTo(Chars, MaxLen)
    /\ prefs \in AllPrefs
    /\ Frames

\* One or two characters: any character of the table or outside it, alone,
\* after a character of Chars or before one.
InitTable ==
    /\ input \in {<<c>> : c \in TableChars}
                 \cup {<<b, c>> : b \in Chars, c \in TableChars}
                 \cup {<<c, b>> : b \in Chars, c \in TableChars}
    /\ prefs \in AllPrefs
    /\ Frames

\* The whole alphabet, each base letter once.
InitAll ==
    /\ input \in AlphabetInputs
    /\ prefs \in AllPrefs
    /\ Frames

\* `for character in input.chars()` yields the next character and each
\* method runs its loop body on it.
Iterate ==
    /\ pc = "loop"
    /\ i < Len(input)
    /\ i' = i + 1
    /\ abjad' = abjad_body(abjad, input[i + 1], prefs)
    /\ abjad_collect_errors' =
           abjad_collect_errors_body(abjad_collect_errors, input[i + 1], prefs)
    /\ abjad_strict' = abjad_strict_body(abjad_strict, input[i + 1], prefs)
    /\ UNCHANGED <<input, prefs, pc>>

\* input.chars() is exhausted: abjad returns abjad_total,
\* abjad_collect_errors returns (abjad_total, errors), abjad_strict returns
\* Ok(abjad_total) unless `?` has returned already.
Return ==
    /\ pc = "loop"
    /\ i = Len(input)
    /\ pc' = "done"
    /\ abjad' = [abjad EXCEPT !.ret = Ok(abjad.abjad_total)]
    /\ abjad_collect_errors' =
           [abjad_collect_errors EXCEPT
               !.ret = [tag |-> "Ok",
                        value |-> <<abjad_collect_errors.abjad_total,
                                    abjad_collect_errors.errors>>]]
    /\ abjad_strict' =
           IF abjad_strict.ret.tag = "Pending"
           THEN [abjad_strict EXCEPT !.ret = Ok(abjad_strict.abjad_total)]
           ELSE abjad_strict
    /\ UNCHANGED <<input, prefs, i>>

Next == Iterate \/ Return

Spec == Init /\ [][Next]_vars

SpecTable == InitTable /\ [][Next]_vars

SpecAll == InitAll /\ [][Next]_vars

-----------------------------------------------------------------------------
(* The mapping table of the specification, as the claims read it *)

\* The rows of fixed value; fifth is the third letter of the row of value 5.
FixedRows(fifth) ==
    { <<1, {1575, 1571, 1573, 1649}>>,    \* alif and its hamzah, wasla forms
      <<2, {1576, 1662}>>,                \* beh, peh
      <<3, {1580, 1670}>>,                \* jeem, tcheh
      <<4, {1583}>>,                      \* dal
      <<5, {1607, 1577, fifth}>>,         \* heh, teh marbuta, and the third
      <<6, {1608, 1572}>>,                \* waw, waw with hamzah above
      <<7, {1586, 1688}>>,                \* zain, jeh
      <<8, {1581}>>,                      \* hah
      <<9, {1591}>>,                      \* tah
      <<10, {1610, 1609, 1574, 1740}>>,   \* yeh, alef maksura, yeh hamzah, farsi yeh
      <<20, {1603, 1705, 1711}>>,         \* kaf, keheh, gaf
      <<30, {1604}>>, <<40, {1605}>>, <<50, {1606}>>,   \* lam, meem, noon
      <<70, {1593}>>, <<80, {1601}>>,     \* ain, feh
      <<100, {1602}>>, <<200, {1585}>>,   \* qaf, reh
      <<400, {1578}>>, <<500, {1579}>>,   \* teh, theh
      <<600, {1582}>>, <<700, {1584}>> }  \* khah, thal

\* letter, Mashriqi value, Maghribi value: seen, sad, sheen, dad, zah, ghain.
OrderRows ==
    { <<1587, 60, 300>>, <<1589, 90, 60>>, <<1588, 300, 1000>>,
      <<1590, 800, 90>>, <<1592, 900, 800>>, <<1594, 1000, 900>> }

OrderLetters == {r[1] : r \in OrderRows}

TableLetters(fifth) ==
    UNION {r[2] : r \in FixedRows(fifth)} \cup OrderLetters \cup {1570, 1569}

TableValue(fifth, c, p) ==
    IF c = 1570 THEN (IF p.double_alif_maddah THEN 2 ELSE 1)
    ELSE IF c = 1569 THEN (IF p.ignore_lone_hamzah THEN 0 ELSE 1)
    ELSE IF c \in OrderLetters
    THEN LET r == CHOOSE x \in OrderRows : x[1] = c
         IN  IF p.maghribi_order THEN r[3] ELSE r[2]
    ELSE (CHOOSE r \in FixedRows(fifth) : c \in r[2])[1]

\* The table with the letter the source matches in the row of value 5,
\* U+06C0 heh with yeh above.
Letters == TableLetters(1728)

Value(c, p) == TableValue(1728, c, p)

Separators == {32, 8204}

IsRecognized(c) == c \in Letters \cup {1617} \cup Separators

IsUnrecognized(c) == ~IsRecognized(c)

Prefix == SubSeq(input, 1, i)

AllRecognized(s) == \A k \in 1..Len(s) : IsRecognized(s[k])

\* The index of the first unrecognized character of s, 0 if there is none.
FirstUnrecognized(s) ==
    IF AllRecognized(s) THEN 0
    ELSE CHOOSE k \in 1..Len(s) :
            IsUnrecognized(s[k]) /\ \A j \in 1..(k - 1) : IsRecognized(s[j])

\* The escaped forms of the unrecognized characters the inputs hold.
Escaped(c) ==
    CASE c = 116 -> "\\u{74}"
      [] c = 1614 -> "\\u{64e}"
      [] c = 1729 -> "\\u{6c1}"
      [] c = 1726 -> "\\u{6be}"

EscapedLog(s) ==
    LET u == SelectSeq(s, IsUnrecognized)
    IN  [k \in 1..Len(u) |-> Escaped(u[k])]

-----------------------------------------------------------------------------
(* Claims *)

\* C1: best-effort mode and collecting mode hold the same total and the same
\* last_value after every character, and the total abjad returns is the
\* total component abjad_collect_errors returns, for every input and each of
\* the 16 configurations.
C1_BestEffortEqualsCollecting ==
    /\ abjad.abjad_total = abjad_collect_errors.abjad_total
    /\ abjad.last_value = abjad_collect_errors.last_value
    /\ pc = "done" => abjad.ret.value = abjad_collect_errors.ret.value[1]

\* C1's case: both returned a positive total for an input with a counted
\* shaddah after an unrecognized character.
C1_Witness ==
    /\ pc = "done"
    /\ prefs.count_shaddah
    /\ \E k \in 2..Len(input) : input[k] = 1617 /\ IsUnrecognized(input[k - 1])
    /\ abjad.ret.value > 0
    /\ abjad_collect_errors.ret.value[1] > 0

\* C2: on an input whose characters are all recognized, strict mode returns
\* Ok and its value is the value best-effort mode returns.
C2_StrictEqualsBestEffort ==
    (pc = "done" /\ AllRecognized(input)) =>
        /\ abjad_strict.ret.tag = "Ok"
        /\ abjad_strict.ret.value = abjad.ret.value

\* C2's case: a recognized input with a counted shaddah after a letter.
C2_Witness ==
    /\ pc = "done"
    /\ AllRecognized(input)
    /\ prefs.count_shaddah
    /\ Len(input) >= 3
    /\ input[1] = 1594 /\ input[2] = 1617
    /\ abjad_strict.ret = Ok(abjad.ret.value)
    /\ abjad.ret.value >= 1800

\* C3: on an input with an unrecognized character, from that character on
\* strict mode holds an error and no total; the error reports the first
\* unrecognized character, and get_letter_value was called for no character
\* after it.
C3_StrictFailsOnFirst ==
    LET k == FirstUnrecognized(input)
    IN  (k > 0 /\ i >= k) =>
            /\ abjad_strict.ret =
                   [tag |-> "Err",
                    msg |-> "Unrecognized character: " \o Escaped(input[k])]
            /\ abjad_strict.classified = k

\* C3's case: strict mode returned at the second character, and a different
\* unrecognized character follows it.
C3_Witness ==
    /\ pc = "done"
    /\ Len(input) >= 3
    /\ FirstUnrecognized(input) = 2
    /\ input[2] = 1614 /\ input[3] = 116
    /\ abjad_strict.ret.tag = "Err"

\* C4: the log of collecting mode holds, in encounter order, the escaped form
\* of every character yielded so far that is neither a letter of the table,
\* the shaddah, space nor zero-width non-joiner, and nothing else; the
\* returned log is that of the whole input, empty exactly when every
\* character is recognized.
C4_LogIsUnrecognized ==
    /\ abjad_collect_errors.errors = EscapedLog(Prefix)
    /\ pc = "done" =>
          /\ abjad_collect_errors.ret.value[2] = EscapedLog(input)
          /\ (abjad_collect_errors.ret.value[2] = <<>>) <=> AllRecognized(input)

\* C4's case: two different unrecognized characters around a recognized one.
C4_Witness ==
    /\ pc = "done"
    /\ Len(input) >= 3
    /\ input[1] = 116 /\ IsRecognized(input[2]) /\ input[3] = 1614
    /\ abjad_collect_errors.ret.value[2] = <<"\\u{74}", "\\u{64e}">>

\* s is a letter of the table followed by two or more shaddahs and nothing
\* else.
LetterThenShaddahs(s) ==
    /\ Len(s) >= 3
    /\ s[1] \in Letters
    /\ \A k \in 2..Len(s) : s[k] = 1617

\* C5: in all three modes last_value is 0 after the shaddah is processed,
\* whether count_shaddah is set or not; so a letter of value V followed by
\* two or more shaddahs totals 2 * V when count_shaddah is set.
C5_ShaddahResetsLastValue ==
    /\ (i >= 1 /\ input[i] = 1617) =>
          /\ abjad.last_value = 0
          /\ abjad_collect_errors.last_value = 0
          /\ abjad_strict.ret.tag # "Err" => abjad_strict.last_value = 0
    /\ (pc = "done" /\ prefs.count_shaddah /\ LetterThenShaddahs(input)) =>
          /\ abjad.ret.value = 2 * Value(input[1], prefs)
          /\ abjad_collect_errors.ret.value[1] = 2 * Value(input[1], prefs)
          /\ abjad_strict.ret = Ok(2 * Value(input[1], prefs))

\* C6: a recognized letter of value V followed by the shaddah, and nothing
\* else, evaluates to 2 * V when count_shaddah is set and to V when it is
\* not, in all three modes.
C6_LetterThenShaddah ==
    (pc = "done" /\ Len(input) = 2 /\ input[1] \in Letters /\ input[2] = 1617) =>
        LET V == Value(input[1], prefs)
            T == IF prefs.count_shaddah THEN 2 * V ELSE V
        IN  /\ abjad.ret.value = T
            /\ abjad_collect_errors.ret.value[1] = T
            /\ abjad_strict.ret = Ok(T)

\* C6's case: gaf and the shaddah, counted: 40.
C6_Witness ==
    /\ pc = "done"
    /\ input = <<1711, 1617>>
    /\ prefs.count_shaddah
    /\ abjad.ret.value = 40
    /\ abjad_strict.ret = Ok(40)

\* get_letter_value's Result for c with last_value lv under prefs p with its
\* order replaced by maghribi.
Classified(c, lv, p, maghribi) ==
    get_letter_value(c, lv, p.count_shaddah, p.double_alif_maddah,
                     p.ignore_lone_hamzah, maghribi)

\* C7: an input that holds each of the 28 base letters once, separators
\* allowed, evaluates to 5995 under Mashriqi order and under Maghribi order
\* in every mode; the six order-dependent letters take, under either order,
\* six different values that make up {60, 90, 300, 800, 900, 1000}, and
\* every other character is classified alike under both orders.
C7_OrderInvariance ==
    pc = "done" =>
        /\ abjad.ret.value = 5995
        /\ abjad_collect_errors.ret.value = <<5995, <<>>>>
        /\ abjad_strict.ret = Ok(5995)
        /\ \A maghribi \in BOOLEAN :
              /\ {Classified(c, abjad.last_value, prefs, maghribi) : c \in OrderLetters}
                    = {Ok(v) : v \in {60, 90, 300, 800, 900, 1000}}
              /\ \A c, d \in OrderLetters :
                    Classified(c, abjad.last_value, prefs, maghribi)
                        = Classified(d, abjad.last_value, prefs, maghribi) => c = d
        /\ \A c \in TableChars \ OrderLetters :
              Classified(c, abjad.last_value, prefs, TRUE)
                  = Classified(c, abjad.last_value, prefs, FALSE)

\* C7's case: the Maghribi alphabet backwards, from sheen, under Maghribi
\* order.
C7_Witness ==
    /\ pc = "done"
    /\ prefs.maghribi_order
    /\ input = Reverse(MaghribiAlphabet)
    /\ abjad.ret.value = 5995

\* What a character adds to the total when it comes first.
FirstContribution(fifth, c, p) ==
    IF c \in TableLetters(fifth) THEN TableValue(fifth, c, p) ELSE 0

\* The claim C8 for the table whose row of value 5 ends with `fifth`: when
\* the character just classified is a letter-form of the table, the value
\* get_letter_value returned for it, which every loop adds to its total and
\* keeps as last_value, is the table's, whatever came before it.
ClassifierFollowsTable(fifth) ==
    (i >= 1 /\ input[i] \in TableLetters(fifth)) =>
        LET V == TableValue(fifth, input[i], prefs)
            before == IF i = 1 THEN 0 ELSE FirstContribution(fifth, input[1], prefs)
        IN  /\ abjad.last_value = V
            /\ abjad.abjad_total = before + V
            /\ abjad_collect_errors.last_value = V
            /\ abjad_collect_errors.abjad_total = before + V
            /\ abjad_strict.ret.tag # "Err" =>
                  /\ abjad_strict.last_value = V
                  /\ abjad_strict.abjad_total = before + V
            /\ (\A k \in 1..i : input[k] \in TableLetters(fifth)) =>
                  abjad_strict.ret.tag # "Err"

\* C8 as stated: the table's Persian forms are peh, tcheh, jeh, keheh, gaf,
\* farsi yeh and heh goal (U+06C1), heh goal taking 5.
C8_TableWithHehGoal == ClassifierFollowsTable(1729)

\* C8 amended: for every letter-form get_letter_value recognizes and every
\* configuration it returns the table's value, the row of value 5 being heh,
\* teh marbuta and heh with yeh above (U+06C0); heh goal (U+06C1) is not
\* recognized.
C8_ClassifierFollowsTable ==
    /\ ClassifierFollowsTable(1728)
    /\ (i >= 1 /\ input[i] = 1729) =>
          /\ abjad.last_value = 0
          /\ Len(abjad_collect_errors.errors) >= 1

\* C8's case: gaf after ghain under Maghribi order, 900 + 20, with
\* count_shaddah set, which neither letter reads.
C8_Witness ==
    /\ i = 2 /\ pc = "done"
    /\ input = <<1594, 1711>>
    /\ prefs.maghribi_order /\ prefs.count_shaddah
    /\ abjad.last_value = 20
    /\ abjad.ret.value = 920

\* C9: in best-effort and collecting modes a step on an unrecognized
\* character leaves the total as it was and last_value 0; a step on space or
\* zero-width non-joiner adds 0 and leaves last_value 0; a step on a shaddah
\* that is first or follows a separator or an unrecognized character adds 0.
C9_SkipsAndSeparators ==
    [][ i' = i + 1 =>
          LET c == input[i + 1]
          IN  /\ (IsUnrecognized(c) \/ c \in Separators) =>
                    /\ abjad'.abjad_total = abjad.abjad_total
                    /\ abjad'.last_value = 0
                    /\ abjad_collect_errors'.abjad_total
                          = abjad_collect_errors.abjad_total
                    /\ abjad_collect_errors'.last_value = 0
              /\ (/\ c = 1617
                  /\ \/ i = 0
                     \/ IsUnrecognized(input[i])
                     \/ input[i] \in Separators) =>
                    /\ abjad'.abjad_total = abjad.abjad_total
                    /\ abjad_collect_errors'.abjad_total
                          = abjad_collect_errors.abjad_total
      ]_vars

\* C9's case: a counted shaddah after a letter and an unrecognized character
\* has added nothing.
C9_Witness ==
    /\ i = 3
    /\ prefs.count_shaddah
    /\ input[1] = 1576 /\ input[2] = 116 /\ input[3] = 1617
    /\ abjad.abjad_total = 2
    /\ abjad_collect_errors.abjad_total = 2

\* C10: in every mode last_value is at most 1000 and the total is at most
\* 1000 times the number of characters classified; a step adds between 0 and
\* 1000 to each total; and 1000 * 4294967 + 296 = 2^32 (a quarter of it
\* written out: 250 * 4294967 + 74 = 2^30), so no input of fewer than
\* 4,294,968 characters can overflow the u32 total.
C10_TotalBounded ==
    /\ [](/\ abjad.last_value <= 1000
          /\ abjad.abjad_total <= 1000 * i
          /\ abjad_collect_errors.last_value <= 1000
          /\ abjad_collect_errors.abjad_total <= 1000 * i
          /\ abjad_strict.last_value <= 1000
          /\ abjad_strict.abjad_total <= 1000 * abjad_strict.classified
          /\ abjad_strict.classified <= i
          /\ 250 * 4294967 + 74 = 1073741824)
    /\ [][ /\ abjad'.abjad_total >= abjad.abjad_total
           /\ abjad'.abjad_total <= abjad.abjad_total + 1000
           /\ abjad_collect_errors'.abjad_total >= abjad_collect_errors.abjad_total
           /\ abjad_collect_errors'.abjad_total
                 <= abjad_collect_errors.abjad_total + 1000
           /\ abjad_strict'.abjad_total >= abjad_strict.abjad_total
           /\ abjad_strict'.abjad_total <= abjad_strict.abjad_total + 1000
         ]_vars

\* C10's case: ghain and a counted shaddah, 1000 each.
C10_Witness ==
    /\ i = 2
    /\ input[1] = 1594 /\ input[2] = 1617
    /\ abjad.last_value = 1000
    /\ abjad.abjad_total = 2000
    /\ abjad_strict.abjad_total = 2000

=============================================================================
